---- MODULE Spec2Model ----
(***************************************************************************)
(* Model of generate-png-icons.py: the icon generator that rasterizes one  *)
(* SVG into eight sized PNGs, a favicon.ico (through a temporary 32x32     *)
(* raster) and an apple-touch-icon.png, counting the outputs it produced   *)
(* and turning the count into the process exit status.                     *)
(*                                                                         *)
(* The file system is a function from paths to contents: 0 is "no such    *)
(* file", n > 0 is a complete n x n image, Corrupt is a file that a        *)
(* failed write left truncated.  Every library call (cairosvg.svg2png,     *)
(* Image.open, img.save, os.remove) either returns or raises; the model    *)
(* draws the outcome of each call nondeterministically in the first run    *)
(* and records it, and a later run against the same source replays the     *)
(* recorded outcomes.                                                      *)
(***************************************************************************)
EXTENDS Integers, Sequences, FiniteSets, TLC

\* ------------------------------------------------------------------ bounds
\* invocations of the script in one behaviour
MaxRuns == 2
\* calls of one behaviour that raise after truncating their target
MaxPartial == 1

\* --------------------------------------------------------------- constants
sizes == <<72, 96, 128, 144, 152, 192, 384, 512>>
FaviconSize == 32
TouchSize == 180
Corrupt == -1

SizeSet == {sizes[k] : k \in 1..Len(sizes)}

\* ------------------------------------------------------------------- paths
output_path(size) == <<"app/public/icons/icon-NxN.png", size>>
favicon_path == <<"app/public/favicon.ico", 0>>
temp_path == <<"app/public/favicon-temp.png", 0>>
apple_icon_path == <<"app/public/apple-touch-icon.png", 0>>

Outputs == {output_path(s) : s \in SizeSet} \cup {favicon_path, apple_icon_path}
Paths == Outputs \cup {temp_path}

\* ------------------------------------------------------------------- steps
IconStep(size) == <<"svg2png", size>>
FavRasterStep == <<"svg2png-temp", FaviconSize>>
FavOpenStep == <<"Image.open", FaviconSize>>
FavSaveStep == <<"img.save", FaviconSize>>
FavRemoveStep == <<"os.remove", FaviconSize>>
TouchStep == <<"svg2png-touch", TouchSize>>

Steps == {IconStep(s) : s \in SizeSet}
           \cup {FavRasterStep, FavOpenStep, FavSaveStep, FavRemoveStep, TouchStep}

\* Outcomes of a call that writes a file: it returns ("ok"), raises before
\* touching the target ("fail"), or raises after truncating it ("partial").
WriteOutcomes == {"ok", "fail", "partial"}
\* Outcomes of a call that writes nothing new: it returns or raises.
CallOutcomes == {"ok", "fail"}

VARIABLES
  pc,             \* control position
  i,              \* index of the for loop over sizes (1-based)
  svgExists,      \* os.path.exists(svg_path)
  fs,             \* file system: Paths -> content
  success_count,  \* the local counter
  img,            \* the image opened from the temp raster (0 = none)
  ret,            \* return value of generate_png_icons
  reported,       \* count printed by the summary line (-1 = not printed)
  exitCode,       \* status given to sys.exit (-1 = still running)
  run,            \* number of the current invocation
  outcome,        \* outcome of each call: Steps -> outcome or "none"
  log,            \* calls made by the current run, in order
  written,        \* paths completely written by the current run
  start,          \* the file system when the current run started
  prev            \* results of the previous run

vars == <<pc, i, svgExists, fs, success_count, img, ret, reported, exitCode,
          run, outcome, log, written, start, prev>>

NoPrev == [fs |-> [p \in Paths |-> 0], reported |-> -1, exitCode |-> -1]

Init ==
  /\ pc = "check"
  /\ i = 1
  /\ svgExists \in BOOLEAN
  /\ fs = [p \in Paths |-> 0]
  /\ success_count = 0
  /\ img = 0
  /\ ret = FALSE
  /\ reported = -1
  /\ exitCode = -1
  /\ run = 1
  /\ outcome = [s \in Steps |-> "none"]
  /\ log = <<>>
  /\ written = {}
  /\ start = [p \in Paths |-> 0]
  /\ prev = NoPrev

\* The outcomes a call may have: any in the first run, the recorded one in a
\* later run.
Truncated == {s \in Steps : outcome[s] = "partial"}
Possible(step, all) ==
  IF outcome[step] = "none"
    THEN IF Cardinality(Truncated) < MaxPartial THEN all ELSE all \ {"partial"}
    ELSE {outcome[step]}

\* Number of times the current run has made a call.
Attempts(step) == Cardinality({k \in 1..Len(log) : log[k] = step})

\* svg2png opening its target for appending instead of truncating it.
Svg2Png_Append(files, path, size, o) ==
  CASE o = "ok" -> [files EXCEPT ![path] = IF files[path] = 0 THEN size ELSE Corrupt]
    [] o = "partial" -> [files EXCEPT ![path] = Corrupt]
    [] OTHER -> files

\* svg2png(url=svg_path, write_to=path, output_width=size, output_height=size)
Svg2Png(files, path, size, o) ==
  CASE o = "ok" -> [files EXCEPT ![path] = size]
    [] o = "partial" -> [files EXCEPT ![path] = Corrupt]
    [] OTHER -> files

\* img.save(favicon_path, format='ICO', sizes=[(32, 32)])
SaveIco(files, path, image, o) ==
  CASE o = "ok" -> [files EXCEPT ![path] = IF image >= FaviconSize THEN FaviconSize ELSE Corrupt]
    [] o = "partial" -> [files EXCEPT ![path] = Corrupt]
    [] OTHER -> files

\* os.remove(path)
Remove(files, path, o) ==
  IF o = "ok" THEN [files EXCEPT ![path] = 0] ELSE files

Record(step, o) == /\ outcome' = [outcome EXCEPT ![step] = o]
                   /\ log' = Append(log, step)

\* CheckSource without the early return: the missing source is reported and
\* the conversions are attempted all the same.
CheckSource_NoReturn ==
  /\ pc = "check"
  /\ pc' = "loop"
  /\ success_count' = 0
  /\ i' = 1
  /\ UNCHANGED <<svgExists, fs, img, ret, reported, exitCode, run, outcome, log,
                 written, start, prev>>

\* if not os.path.exists(svg_path): return False ; success_count = 0
CheckSource ==
  /\ pc = "check"
  /\ IF svgExists
       THEN /\ pc' = "loop"
            /\ success_count' = 0
            /\ i' = 1
            /\ ret' = ret
       ELSE /\ pc' = "main"
            /\ ret' = FALSE
            /\ UNCHANGED <<success_count, i>>
  /\ UNCHANGED <<svgExists, fs, img, reported, exitCode, run, outcome, log,
                 written, start, prev>>

\* SizedIcon with the try around the loop instead of inside it: the first
\* failing size ends the loop.
SizedIcon_AbortOnFailure ==
  /\ pc = "loop"
  /\ i <= Len(sizes)
  /\ LET size == sizes[i]
         step == IconStep(size)
     IN \E o \in Possible(step, WriteOutcomes) :
          /\ fs' = Svg2Png(fs, output_path(size), size, o)
          /\ success_count' = IF o = "ok" THEN success_count + 1 ELSE success_count
          /\ written' = IF o = "ok" THEN written \cup {output_path(size)} ELSE written
          /\ Record(step, o)
          /\ pc' = IF i = Len(sizes) \/ o # "ok" THEN "fav_raster" ELSE "loop"
  /\ i' = i + 1
  /\ UNCHANGED <<svgExists, img, ret, reported, exitCode, run, start, prev>>

\* SizedIcon retrying a size once after its first failure.
SizedIcon_RetryOnce ==
  /\ pc = "loop"
  /\ i <= Len(sizes)
  /\ LET size == sizes[i]
         step == IconStep(size)
     IN \E o \in Possible(step, WriteOutcomes) :
          /\ fs' = Svg2Png(fs, output_path(size), size, o)
          /\ success_count' = IF o = "ok" THEN success_count + 1 ELSE success_count
          /\ written' = IF o = "ok" THEN written \cup {output_path(size)} ELSE written
          /\ Record(step, o)
          /\ IF o # "ok" /\ Attempts(step) = 0
               THEN i' = i /\ pc' = "loop"
               ELSE /\ i' = i + 1
                    /\ pc' = IF i = Len(sizes) THEN "fav_raster" ELSE "loop"
  /\ UNCHANGED <<svgExists, img, ret, reported, exitCode, run, start, prev>>

\* one iteration of: for size in sizes: try: svg2png(...); success_count += 1
SizedIcon ==
  /\ pc = "loop"
  /\ i <= Len(sizes)
  /\ LET size == sizes[i]
         step == IconStep(size)
     IN \E o \in Possible(step, WriteOutcomes) :
          /\ fs' = Svg2Png(fs, output_path(size), size, o)
          /\ success_count' = IF o = "ok" THEN success_count + 1 ELSE success_count
          /\ written' = IF o = "ok" THEN written \cup {output_path(size)} ELSE written
          /\ Record(step, o)
  /\ i' = i + 1
  /\ pc' = IF i = Len(sizes) THEN "fav_raster" ELSE "loop"
  /\ UNCHANGED <<svgExists, img, ret, reported, exitCode, run, start, prev>>

\* favicon try block, first call: svg2png(..., write_to=temp, 32, 32)
FavRaster ==
  /\ pc = "fav_raster"
  /\ \E o \in Possible(FavRasterStep, WriteOutcomes) :
       /\ fs' = Svg2Png(fs, temp_path, FaviconSize, o)
       /\ written' = IF o = "ok" THEN written \cup {temp_path} ELSE written
       /\ Record(FavRasterStep, o)
       /\ pc' = IF o = "ok" THEN "fav_open" ELSE "touch"
  /\ UNCHANGED <<i, svgExists, success_count, img, ret, reported, exitCode,
                 run, start, prev>>

\* img = Image.open(temp)
FavOpen ==
  /\ pc = "fav_open"
  /\ \E o \in Possible(FavOpenStep, CallOutcomes) :
       /\ img' = IF o = "ok" THEN fs[temp_path] ELSE img
       /\ Record(FavOpenStep, o)
       /\ pc' = IF o = "ok" THEN "fav_save" ELSE "touch"
  /\ UNCHANGED <<i, svgExists, fs, success_count, ret, reported, exitCode,
                 run, written, start, prev>>

\* FavSave outside any try block: its exception reaches the handler of
\* __main__, which exits 1.
FavSave_Uncaught ==
  /\ pc = "fav_save"
  /\ \E o \in Possible(FavSaveStep, WriteOutcomes) :
       /\ fs' = SaveIco(fs, favicon_path, img, o)
       /\ written' = IF o = "ok" THEN written \cup {favicon_path} ELSE written
       /\ Record(FavSaveStep, o)
       /\ pc' = IF o = "ok" THEN "fav_remove" ELSE "main"
       /\ ret' = IF o = "ok" THEN ret ELSE FALSE
  /\ UNCHANGED <<i, svgExists, success_count, img, reported, exitCode,
                 run, start, prev>>

\* img.save(favicon_path, format='ICO', sizes=[(32, 32)])
FavSave ==
  /\ pc = "fav_save"
  /\ \E o \in Possible(FavSaveStep, WriteOutcomes) :
       /\ fs' = SaveIco(fs, favicon_path, img, o)
       /\ written' = IF o = "ok" THEN written \cup {favicon_path} ELSE written
       /\ Record(FavSaveStep, o)
       /\ pc' = IF o = "ok" THEN "fav_remove" ELSE "touch"
  /\ UNCHANGED <<i, svgExists, success_count, img, ret, reported, exitCode,
                 run, start, prev>>

\* FavRemove with the os.remove call left out.
FavRemove_Skipped ==
  /\ pc = "fav_remove"
  /\ \E o \in Possible(FavRemoveStep, CallOutcomes) :
       /\ fs' = fs
       /\ success_count' = IF o = "ok" THEN success_count + 1 ELSE success_count
       /\ Record(FavRemoveStep, o)
  /\ pc' = "touch"
  /\ UNCHANGED <<i, svgExists, img, ret, reported, exitCode, run, written,
                 start, prev>>

\* os.remove(temp); success_count += 1
FavRemove ==
  /\ pc = "fav_remove"
  /\ \E o \in Possible(FavRemoveStep, CallOutcomes) :
       /\ fs' = Remove(fs, temp_path, o)
       /\ success_count' = IF o = "ok" THEN success_count + 1 ELSE success_count
       /\ Record(FavRemoveStep, o)
  /\ pc' = "touch"
  /\ UNCHANGED <<i, svgExists, img, ret, reported, exitCode, run, written,
                 start, prev>>

\* TouchIcon with the favicon's output_width/output_height pasted in.
TouchIcon_FaviconSize ==
  /\ pc = "touch"
  /\ \E o \in Possible(TouchStep, WriteOutcomes) :
       /\ fs' = Svg2Png(fs, apple_icon_path, FaviconSize, o)
       /\ success_count' = IF o = "ok" THEN success_count + 1 ELSE success_count
       /\ written' = IF o = "ok" THEN written \cup {apple_icon_path} ELSE written
       /\ Record(TouchStep, o)
  /\ pc' = "summary"
  /\ UNCHANGED <<i, svgExists, img, ret, reported, exitCode, run, start, prev>>

\* apple-touch-icon try block
TouchIcon ==
  /\ pc = "touch"
  /\ \E o \in Possible(TouchStep, WriteOutcomes) :
       /\ fs' = Svg2Png(fs, apple_icon_path, TouchSize, o)
       /\ success_count' = IF o = "ok" THEN success_count + 1 ELSE success_count
       /\ written' = IF o = "ok" THEN written \cup {apple_icon_path} ELSE written
       /\ Record(TouchStep, o)
  /\ pc' = "summary"
  /\ UNCHANGED <<i, svgExists, img, ret, reported, exitCode, run, start, prev>>

\* Summary returning success_count >= 0.
Summary_NonNegative ==
  /\ pc = "summary"
  /\ reported' = success_count
  /\ ret' = (success_count >= 0)
  /\ pc' = "main"
  /\ UNCHANGED <<i, svgExists, fs, success_count, img, exitCode, run, outcome,
                 log, written, start, prev>>

\* print(f"Generated {success_count} icons successfully"); return success_count > 0
Summary ==
  /\ pc = "summary"
  /\ reported' = success_count
  /\ ret' = (success_count > 0)
  /\ pc' = "main"
  /\ UNCHANGED <<i, svgExists, fs, success_count, img, exitCode, run, outcome,
                 log, written, start, prev>>

\* sys.exit(0 if success else 1)
Exit ==
  /\ pc = "main"
  /\ exitCode' = IF ret THEN 0 ELSE 1
  /\ pc' = "done"
  /\ UNCHANGED <<i, svgExists, fs, success_count, img, ret, reported, run,
                 outcome, log, written, start, prev>>

\* The script is invoked again against the same source and the files the
\* previous invocation left.
Rerun ==
  /\ pc = "done"
  /\ run < MaxRuns
  /\ run' = run + 1
  /\ prev' = [fs |-> fs, reported |-> reported, exitCode |-> exitCode]
  /\ start' = fs
  /\ pc' = "check"
  /\ i' = 1
  /\ success_count' = 0
  /\ img' = 0
  /\ ret' = FALSE
  /\ reported' = -1
  /\ exitCode' = -1
  /\ log' = <<>>
  /\ written' = {}
  /\ UNCHANGED <<svgExists, fs, outcome>>

Next ==
  \/ CheckSource
  \/ SizedIcon
  \/ FavRaster
  \/ FavOpen
  \/ FavSave
  \/ FavRemove
  \/ TouchIcon
  \/ Summary
  \/ Exit
  \/ Rerun

Spec == Init /\ [][Next]_vars

\* The script is single-threaded and every library call returns or raises, so
\* a started invocation keeps taking its steps (weak fairness on Step).
\* OneRun is one invocation of the script under that fairness.
Step ==
  \/ CheckSource
  \/ SizedIcon
  \/ FavRaster
  \/ FavOpen
  \/ FavSave
  \/ FavRemove
  \/ TouchIcon
  \/ Summary
  \/ Exit

OneRun == Init /\ [][Step]_vars /\ WF_vars(Step)

\* ----------------------------------------------------------------- helpers
Done == pc = "done"
Attempted(step) == Attempts(step) > 0
Succeeded(step) == Attempted(step) /\ outcome[step] = "ok"
Failed(step) == Attempted(step) /\ outcome[step] # "ok"
FavSteps == {FavRasterStep, FavOpenStep, FavSaveStep, FavRemoveStep}
RasterSteps == {IconStep(s) : s \in SizeSet} \cup {FavRasterStep, TouchStep}
FavPcs == {"fav_raster", "fav_open", "fav_save", "fav_remove"}
SizedOk == {s \in SizeSet : Succeeded(IconStep(s))}
Order == [k \in 1..Len(sizes) |-> IconStep(sizes[k])]
           \o <<FavRasterStep, FavOpenStep, FavSaveStep, FavRemoveStep, TouchStep>>
Pos(step) == CHOOSE k \in 1..Len(Order) : Order[k] = step

TypeOK ==
  /\ pc \in {"check", "loop", "fav_raster", "fav_open", "fav_save",
             "fav_remove", "touch", "summary", "main", "done"}
  /\ i \in 1..(Len(sizes) + 1)
  /\ success_count \in 0..10
  /\ fs \in [Paths -> {Corrupt, 0, FaviconSize, TouchSize} \cup SizeSet]
  /\ exitCode \in {-1, 0, 1}
  /\ run \in 1..MaxRuns

\* C1: whenever a run that created the temporary raster has terminated, the
\* temporary raster no longer exists.
C1_TempRemovedAfterExit ==
  (Done /\ temp_path \in written) => fs[temp_path] = 0

\* C2: with the source missing, the run makes no library call, writes and
\* removes no file, and exits with status 1.
C2_MissingSource ==
  ~svgExists =>
    /\ log = <<>>
    /\ written = {}
    /\ fs = start
    /\ \A p \in Paths : fs[p] = 0
    /\ pc \in {"check", "main", "done"}
    /\ pc # "check" => ret = FALSE
    /\ Done => exitCode = 1

C2_Witness == Done /\ ~svgExists /\ exitCode = 1 /\ log = <<>>

\* C3: with the source present, a finished run has attempted every size once,
\* every size whose rasterization did not fail has its output at that size,
\* and the exit status is 0 as soon as one size succeeded.
C3_PerSizeIsolation ==
  (Done /\ svgExists) =>
    /\ \A s \in SizeSet :
         /\ Attempts(IconStep(s)) = 1
         /\ outcome[IconStep(s)] = "ok" =>
              (fs[output_path(s)] = s /\ output_path(s) \in written)
    /\ SizedOk # {} => exitCode = 0
    /\ success_count >= Cardinality(SizedOk)

C3_Witness ==
  /\ Done
  /\ svgExists
  /\ Failed(IconStep(144))
  /\ SizedOk = SizeSet \ {144}
  /\ \A s \in SizeSet \ {144} : fs[output_path(s)] = s
  /\ fs[output_path(144)] = 0
  /\ exitCode = 0

\* C4: the exit status is 0 exactly when the source exists and the success
\* count is positive; a run that exits 0 wrote at least one output; when the
\* source exists and every rasterization fails the count reported is 0 and
\* the exit status is 1.
C4_ExitPolicy ==
  Done =>
    /\ exitCode \in {0, 1}
    /\ exitCode = 0 <=> (svgExists /\ success_count > 0)
    /\ exitCode = 0 => written \cap Outputs # {}
    /\ (svgExists /\ \A st \in RasterSteps : Failed(st)) =>
         (reported = 0 /\ exitCode = 1)

C4_Witness ==
  /\ Done
  /\ svgExists
  /\ \A st \in RasterSteps : Failed(st)
  /\ reported = 0
  /\ exitCode = 1

\* C5: the count printed by the summary equals the number of outputs this run
\* wrote (sized icons, favicon.ico, apple-touch-icon.png) and lies in 0..10.
C5_CountEqualsOutputs ==
  reported # -1 =>
    /\ reported \in 0..10
    /\ reported = Cardinality(written \cap Outputs)

\* C6: a favicon step or the touch-icon step, failing or not, leaves the sized
\* icons and the count they contributed untouched, hands control to the next
\* item (favicon -> touch icon -> summary), and the touch-icon step leaves the
\* favicon results as they were.
C6_FaviconTouchIsolation ==
  [][ /\ pc \in FavPcs \cup {"touch"} =>
           /\ \A s \in SizeSet : fs'[output_path(s)] = fs[output_path(s)]
           /\ success_count' >= success_count
           /\ success_count' >= Cardinality(SizedOk)
           /\ SizedOk' = SizedOk
           /\ exitCode' = -1
      /\ pc \in FavPcs => (pc' \in FavPcs \cup {"touch"}
                            /\ fs'[apple_icon_path] = fs[apple_icon_path])
      /\ pc = "touch" =>
           /\ pc' = "summary"
           /\ Attempted(TouchStep)'
           /\ fs'[favicon_path] = fs[favicon_path]
           /\ fs'[temp_path] = fs[temp_path]
    ]_vars

C6_Witness ==
  /\ Done
  /\ Failed(FavSaveStep)
  /\ Attempted(TouchStep)
  /\ SizedOk = SizeSet
  /\ fs[apple_icon_path] = TouchSize
  /\ success_count = 9

\* C7: with the source present and no failing call, the finished run leaves
\* every sized icon at its size, a 32x32 favicon.ico, a 180x180 touch icon,
\* reports 10 and exits 0.
C7_AllOutputs ==
  (Done /\ svgExists /\ \A st \in Steps : Succeeded(st)) =>
    /\ \A s \in SizeSet : fs[output_path(s)] = s
    /\ fs[favicon_path] = FaviconSize
    /\ fs[apple_icon_path] = TouchSize
    /\ reported = 10
    /\ exitCode = 0

C7_Witness ==
  /\ Done
  /\ svgExists
  /\ \A st \in Steps : Succeeded(st)
  /\ fs[output_path(512)] = 512
  /\ reported = 10

\* C8: a second run against the same source with the same call outcomes ends
\* with the same files, the same reported count and the same exit status as
\* the first.
C8_Idempotent ==
  (Done /\ run >= 2) =>
    /\ fs = prev.fs
    /\ reported = prev.reported
    /\ exitCode = prev.exitCode

C8_Witness ==
  /\ Done
  /\ run = 2
  /\ svgExists
  /\ start[output_path(72)] = 72
  /\ fs[output_path(72)] = 72
  /\ Failed(IconStep(96))
  /\ prev.reported = reported
  /\ reported > 0

\* C9: the calls of a run are made in the fixed order (sizes in list order,
\* temp raster, open, save, remove, touch icon), the summary comes after the
\* touch icon, and the temporary raster is absent during the loop of a run
\* that started without it and during the touch-icon step after a favicon
\* operation whose steps all succeeded.
C9_Ordering ==
  /\ \A k \in 1..Len(log) :
       /\ k <= Len(sizes) => log[k] = IconStep(sizes[k])
       /\ k > 1 =>
            \/ Pos(log[k]) = Pos(log[k - 1]) + 1
            \/ /\ log[k - 1] \in FavSteps
               /\ outcome[log[k - 1]] # "ok"
               /\ log[k] = TouchStep
  /\ pc = "loop" => Len(log) = i - 1
  /\ pc \in FavPcs \cup {"touch"} => Len(log) >= Len(sizes)
  /\ reported # -1 => Attempted(TouchStep)
  /\ (start[temp_path] = 0 /\ pc \in {"check", "loop", "fav_raster"}) => fs[temp_path] = 0
  /\ (pc \in {"touch", "summary"} /\ \A st \in FavSteps : Succeeded(st)) => fs[temp_path] = 0

C9_Witness ==
  /\ pc = "touch"
  /\ \A st \in FavSteps : Succeeded(st)
  /\ Len(log) = Len(sizes) + 4
  /\ fs[temp_path] = 0
  /\ fs[favicon_path] = FaviconSize

\* C10: every started run reaches its exit with status 0 or 1, no call is made
\* twice in a run, and a finished run with the source present has attempted
\* each of the ten outputs exactly once.
C10_TerminatesNoRetry ==
  /\ [](\A st \in Steps : Attempts(st) <= 1)
  /\ []((Done /\ svgExists) => \A st \in RasterSteps : Attempts(st) = 1)
  /\ [](Done => exitCode \in {0, 1})
  /\ [](pc = "check" => <>Done)

C10_Witness ==
  /\ Done
  /\ svgExists
  /\ Failed(IconStep(72))
  /\ Failed(FavRasterStep)
  /\ Failed(TouchStep)
  /\ Attempts(IconStep(72)) = 1
  /\ exitCode = 0
====
